---- MODULE Spec2Model ----
(***************************************************************************)
(* Model of the checkpoint loader / migrator (allin1/models/loaders.py)    *)
(* and of the NATTEN compatibility shim (allin1/models/natten_compat.py).  *)
(*                                                                         *)
(* Python strings that the code inspects (state_dict keys) are sequences   *)
(* of one-character strings; Python's None is the value None below.        *)
(***************************************************************************)
EXTENDS Integers, Sequences, FiniteSets, TLC

VARIABLES
  \* --- _migrate_checkpoint applied to a caller's mapping
  state_dict,        \* the mapping, mutated in place: sequence of [k, v], insertion order
  raw_state_dict,    \* the mapping as the caller built it
  prev_state_dict,   \* the mapping as it was before the last application
  migrate_ret,       \* what the last application returned / raised
  applied,           \* number of applications so far
  \* --- the loader and its environment
  hub,               \* remote store: filename -> what fetching and deserializing it gives
  cuda_device_count, \* torch.cuda.device_count()
  envChanges,        \* number of changes made to the remote store
  last,              \* the loader call made against the store: arguments and outcome
  \* --- the compatibility shim and its environment
  installed,         \* symbols importable from natten.functional
  import_state,      \* "not_imported", "imported" or "import_failed"
  _NATTEN_NEW_API,   \* module global of natten_compat
  NATTEN_VERSION,    \* module global of natten_compat
  bound,             \* module-level names bound by the import statements
  installed_at_import, \* what was importable when the module was last imported
  shim_call          \* the last call of a shim function and the backend call it made

vars == <<state_dict, raw_state_dict, prev_state_dict, migrate_ret, applied,
          hub, cuda_device_count, envChanges, last,
          installed, import_state, _NATTEN_NEW_API, NATTEN_VERSION, bound,
          installed_at_import, shim_call>>

migrateVars == <<state_dict, raw_state_dict, prev_state_dict, migrate_ret, applied>>
loaderVars == <<hub, cuda_device_count, envChanges, last>>
shimVars == <<installed, import_state, _NATTEN_NEW_API, NATTEN_VERSION, bound,
          installed_at_import, shim_call>>

\* Python's None.
None == "<None>"

(***************************************************************************)
(* Bounds.                                                                 *)
(***************************************************************************)
\* largest number of keys of a mapping handed to _migrate_checkpoint
MaxKeys == 2
\* largest number of successive applications of _migrate_checkpoint
MaxApplied == 2
\* largest number of changes to the remote store
MaxEnvChanges == 2

(***************************************************************************)
(* Strings.                                                                *)
(***************************************************************************)
\* faulty variant: no case folding (a case-sensitive match)
LowerChar_identity(c) == c

\* str.lower() on one character
LowerChar(c) ==
  CASE c = "R" -> "r"
    [] c = "P" -> "p"
    [] c = "B" -> "b"
    [] c = "A" -> "a"
    [] c = "W" -> "w"
    [] OTHER -> c

\* k.lower()
Lower(k) == [i \in 1..Len(k) |-> LowerChar(k[i])]

\* sub in s  (Python substring test)
Contains(s, sub) ==
  \E i \in 0..(Len(s) - Len(sub)) :
    \A j \in 1..Len(sub) : s[i + j] = sub[j]

\* the literal 'rpb'
RpbPattern == <<"r", "p", "b">>

\* 'rpb' in k.lower()
IsRpbKey(k) == Contains(Lower(k), RpbPattern)

(***************************************************************************)
(* Mappings (Python dict, insertion ordered): sequences of [k, v] with     *)
(* distinct keys.                                                          *)
(***************************************************************************)
\* list(d.keys())
Keys(d) == [i \in 1..Len(d) |-> d[i].k]

KeySet(d) == {d[i].k : i \in 1..Len(d)}

\* del d[key], for a key of d
DelItem(d, key) == SelectSeq(d, LAMBDA e : e.k # key)

\* for key in keys: del d[key]   (KeyError when a key is not in d)
RECURSIVE DelEach(_, _)
DelEach(d, keys) ==
  IF keys = <<>> THEN [raised |-> None, d |-> d]
  ELSE IF Head(keys) \notin KeySet(d) THEN [raised |-> "KeyError", d |-> d]
  ELSE DelEach(DelItem(d, Head(keys)), Tail(keys))

\* faulty variant: only the first matching key is deleted
_migrate_checkpoint_first_only(sd) ==
  LET rpb_keys == SelectSeq(Keys(sd), IsRpbKey)
      del == DelEach(sd, IF rpb_keys = <<>> THEN <<>> ELSE <<Head(rpb_keys)>>)
  IN [raised |-> del.raised, state_dict |-> del.d, rpb_keys |-> rpb_keys, missing |-> <<>>]

\* loaders.py _migrate_checkpoint: the mapping after the call (mutated in
\* place), the returned pair (rpb_keys, []) and the exception raised, if any
_migrate_checkpoint(sd) ==
  LET rpb_keys == SelectSeq(Keys(sd), IsRpbKey)
      del == DelEach(sd, rpb_keys)
  IN [raised |-> del.raised, state_dict |-> del.d, rpb_keys |-> rpb_keys, missing |-> <<>>]

(***************************************************************************)
(* The registries of loaders.py.                                           *)
(***************************************************************************)
\* NAME_TO_FILE, in declaration order: <<name, filename>>
NAME_TO_FILE ==
  << <<"harmonix-fold0", "harmonix-fold0-0vra4ys2.pth">>,
     <<"harmonix-fold1", "harmonix-fold1-3ozjhtsj.pth">>,
     <<"harmonix-fold2", "harmonix-fold2-gmgo0nsy.pth">>,
     <<"harmonix-fold3", "harmonix-fold3-i92b7m8p.pth">>,
     <<"harmonix-fold4", "harmonix-fold4-1bql5qo0.pth">>,
     <<"harmonix-fold5", "harmonix-fold5-x4z5zeef.pth">>,
     <<"harmonix-fold6", "harmonix-fold6-x7t226rq.pth">>,
     <<"harmonix-fold7", "harmonix-fold7-qwwskhg6.pth">> >>

\* list(NAME_TO_FILE.keys())
NameToFileKeys == [i \in 1..Len(NAME_TO_FILE) |-> NAME_TO_FILE[i][1]]

\* model_name in NAME_TO_FILE
InNameToFile(name) == \E i \in 1..Len(NAME_TO_FILE) : NAME_TO_FILE[i][1] = name

\* NAME_TO_FILE[model_name], for a key
NameToFileGet(name) ==
  NAME_TO_FILE[CHOOSE i \in 1..Len(NAME_TO_FILE) : NAME_TO_FILE[i][1] = name][2]

Files == {NAME_TO_FILE[i][2] : i \in 1..Len(NAME_TO_FILE)}

\* faulty variant: the folds listed in reverse
ENSEMBLE_MODELS_reversed ==
  [n \in {"harmonix-all"} |->
     << "harmonix-fold7", "harmonix-fold6", "harmonix-fold5", "harmonix-fold4",
        "harmonix-fold3", "harmonix-fold2", "harmonix-fold1", "harmonix-fold0" >>]

\* ENSEMBLE_MODELS: ensemble name -> ordered member names
ENSEMBLE_MODELS ==
  [n \in {"harmonix-all"} |->
     << "harmonix-fold0", "harmonix-fold1", "harmonix-fold2", "harmonix-fold3",
        "harmonix-fold4", "harmonix-fold5", "harmonix-fold6", "harmonix-fold7" >>]

(***************************************************************************)
(* The loader's collaborators.  A call returns a record: raised is None    *)
(* or the exception; trace lists, in order, the calls made.                *)
(***************************************************************************)
Ev(op, arg, n) == [op |-> op, arg |-> arg, n |-> n]

NoValue ==
  [kind |-> "None", config |-> None, device |-> None, training |-> FALSE,
   loaded |-> <<>>, models |-> <<>>]

Ret(value, trace) == [raised |-> None, value |-> value, trace |-> trace]
Raise(exc, trace) == [raised |-> exc, value |-> NoValue, trace |-> trace]

\* hf_hub_download(repo_id='taejunkim/allinone', filename=..., cache_dir=...):
\* the local path of the file, or a fetch error
hf_hub_download(filename, h) ==
  IF h[filename].kind = "fetch_error"
  THEN [raised |-> "FetchError", path |-> None]
  ELSE [raised |-> None, path |-> filename]

\* torch.load(checkpoint_path, map_location=device): the deserialized bundle,
\* or a format error
torch_load(path, h) ==
  IF h[path].kind = "load_error"
  THEN [raised |-> "FormatError", checkpoint |-> h[path].checkpoint]
  ELSE [raised |-> None, checkpoint |-> h[path].checkpoint]

\* AllInOne(config): a freshly built module, in training mode, on the cpu
AllInOne(config) ==
  [kind |-> "AllInOne", config |-> config, device |-> "cpu", training |-> TRUE,
   loaded |-> <<>>, models |-> <<>>]

\* Ensemble(models)
Ensemble(models) ==
  [kind |-> "Ensemble", config |-> None, device |-> "cpu", training |-> TRUE,
   loaded |-> <<>>, models |-> models]

\* module.to(device)  (to(None) moves nothing)
To(module, device) ==
  IF device = None THEN module ELSE [module EXCEPT !.device = device]

\* module.load_state_dict(state_dict, strict=False): the entries handed over
LoadStateDict(module, sd) == [module EXCEPT !.loaded = sd]

\* module.eval()
Eval(module) == [module EXCEPT !.training = FALSE]

\* Python truthiness of an Optional[str]
Falsy(x) == x = None \/ x = ""

\* faulty variant: the default is the last registered name
DefaultName_last(model_name) ==
  IF Falsy(model_name) THEN NameToFileKeys[Len(NameToFileKeys)] ELSE model_name

\* model_name or list(NAME_TO_FILE.keys())[0]
DefaultName(model_name) ==
  IF Falsy(model_name) THEN NameToFileKeys[1] ELSE model_name

\* device resolution of load_pretrained_model
ResolveDevice(device, count) ==
  IF device = None THEN (IF count # 0 THEN "cuda" ELSE "cpu") ELSE device

\* faulty variant: model.eval() is left out
LoadFromPath_no_eval(path, dev, h) ==
  LET ld == torch_load(path, h)
      t1 == <<Ev("torch.load", path, 0)>>
  IN IF ld.raised # None THEN Raise(ld.raised, t1)
     ELSE IF "config" \notin ld.checkpoint.fields THEN Raise("KeyError", t1)
     ELSE LET model == To(AllInOne(ld.checkpoint.config), dev)
              mig == _migrate_checkpoint(ld.checkpoint.state_dict)
              t2 == t1 \o <<Ev("_migrate_checkpoint", path, Len(mig.rpb_keys))>>
          IN IF mig.raised # None THEN Raise(mig.raised, t2)
             ELSE Ret(LoadStateDict(model, mig.state_dict),
                      t2 \o (IF mig.rpb_keys # <<>>
                             THEN <<Ev("print", path, Len(mig.rpb_keys))>>
                             ELSE <<>>))

\* loaders.py lines 69-84: from the fetched path to the returned model
LoadFromPath(path, dev, h) ==
  LET ld == torch_load(path, h)
      t1 == <<Ev("torch.load", path, 0)>>
  IN IF ld.raised # None THEN Raise(ld.raised, t1)
     ELSE IF "config" \notin ld.checkpoint.fields THEN Raise("KeyError", t1)
     ELSE LET model == To(AllInOne(ld.checkpoint.config), dev)
              mig == _migrate_checkpoint(ld.checkpoint.state_dict)
              t2 == t1 \o <<Ev("_migrate_checkpoint", path, Len(mig.rpb_keys))>>
          IN IF mig.raised # None THEN Raise(mig.raised, t2)
             ELSE Ret(Eval(LoadStateDict(model, mig.state_dict)),
                      t2 \o (IF mig.rpb_keys # <<>>
                             THEN <<Ev("print", path, Len(mig.rpb_keys))>>
                             ELSE <<>>))

RECURSIVE load_pretrained_model(_, _, _, _)
RECURSIVE load_ensemble_model(_, _, _, _)
RECURSIVE EnsembleLoop(_, _, _, _, _, _)
RECURSIVE EnsembleLoop_skip_failed(_, _, _, _, _, _)

\* loaders.py load_pretrained_model; h is the remote store, count the number
\* of cuda devices
load_pretrained_model(model_name, device, h, count) ==
  LET enter == <<Ev("load_pretrained_model", model_name, 0)>>
  IN IF model_name \in DOMAIN ENSEMBLE_MODELS
     THEN LET r == load_ensemble_model(model_name, device, h, count)
          IN [r EXCEPT !.trace = enter \o @]
     ELSE LET name == DefaultName(model_name)
          IN IF ~InNameToFile(name) THEN Raise("AssertionError", enter)
             ELSE LET dev == ResolveDevice(device, count)
                      filename == NameToFileGet(name)
                      dl == hf_hub_download(filename, h)
                      t1 == enter \o <<Ev("hf_hub_download", filename, 0)>>
                  IN IF dl.raised # None THEN Raise(dl.raised, t1)
                     ELSE LET r == LoadFromPath(dl.path, dev, h)
                          IN [r EXCEPT !.trace = t1 \o @]

\* faulty variant: a member that fails to load is skipped
EnsembleLoop_skip_failed(names, i, device, h, count, acc) ==
  IF i > Len(names) THEN acc
  ELSE LET r == load_pretrained_model(names[i], device, h, count)
       IN EnsembleLoop_skip_failed(names, i + 1, device, h, count,
            [raised |-> None,
             models |-> IF r.raised # None THEN acc.models
                        ELSE Append(acc.models, r.value),
             trace |-> acc.trace \o r.trace])

\* the for loop of load_ensemble_model, from member i on
EnsembleLoop(names, i, device, h, count, acc) ==
  IF i > Len(names) THEN acc
  ELSE LET r == load_pretrained_model(names[i], device, h, count)
       IN IF r.raised # None
          THEN [raised |-> r.raised, models |-> acc.models,
                trace |-> acc.trace \o r.trace]
          ELSE EnsembleLoop(names, i + 1, device, h, count,
                 [raised |-> None, models |-> Append(acc.models, r.value),
                  trace |-> acc.trace \o r.trace])

\* loaders.py load_ensemble_model
load_ensemble_model(model_name, device, h, count) ==
  LET enter == <<Ev("load_ensemble_model", model_name, 0)>>
  IN IF model_name \notin DOMAIN ENSEMBLE_MODELS THEN Raise("KeyError", enter)
     ELSE LET loop == EnsembleLoop(ENSEMBLE_MODELS[model_name], 1, device, h, count,
                                   [raised |-> None, models |-> <<>>, trace |-> <<>>])
          IN IF loop.raised # None THEN Raise(loop.raised, enter \o loop.trace)
             ELSE Ret(Eval(To(Ensemble(loop.models), device)),
                      enter \o loop.trace \o <<Ev("Ensemble", model_name, Len(loop.models))>>)

(***************************************************************************)
(* natten_compat.py.                                                       *)
(***************************************************************************)
\* the names the try block imports from natten.functional, in order, with
\* the module-level names they are bound to
OldImports ==
  << <<"natten1dqkrpb", "_na1d_qk_old">>, <<"natten1dav", "_na1d_av_old">>,
     <<"natten2dqkrpb", "_na2d_qk_old">>, <<"natten2dav", "_na2d_av_old">> >>

\* the names the except block imports, in order
NewImports ==
  << <<"na1d_qk", "_na1d_qk_new">>, <<"na1d_av", "_na1d_av_new">>,
     <<"na2d_qk", "_na2d_qk_new">>, <<"na2d_av", "_na2d_av_new">> >>

OldSymbols == {OldImports[i][1] : i \in 1..Len(OldImports)}
NewSymbols == {NewImports[i][1] : i \in 1..Len(NewImports)}
Symbols == OldSymbols \cup NewSymbols
LocalNames ==
  {OldImports[i][2] : i \in 1..Len(OldImports)} \cup
  {NewImports[i][2] : i \in 1..Len(NewImports)}

Unbound == [n \in LocalNames |-> None]

\* from natten.functional import X as Y, one statement after the other:
\* stops with ImportError at the first name that is not importable
RECURSIVE ImportAll(_, _, _, _)
ImportAll(imports, i, inst, b) ==
  IF i > Len(imports) THEN [raised |-> None, bound |-> b]
  ELSE IF imports[i][1] \notin inst THEN [raised |-> "ImportError", bound |-> b]
  ELSE ImportAll(imports, i + 1, inst, [b EXCEPT ![imports[i][2]] = imports[i][1]])

\* faulty variant: the ImportError of the fallback imports is swallowed
ModuleImport_lazy(inst) ==
  LET old == ImportAll(OldImports, 1, inst, Unbound)
  IN IF old.raised = None
     THEN [raised |-> None, new_api |-> FALSE, version |-> "old", bound |-> old.bound]
     ELSE LET new == ImportAll(NewImports, 1, inst, old.bound)
          IN [raised |-> None, new_api |-> TRUE, version |-> "new", bound |-> new.bound]

\* natten_compat.py lines 11-27, executed when the module is imported
ModuleImport(inst) ==
  LET old == ImportAll(OldImports, 1, inst, Unbound)
  IN IF old.raised = None
     THEN [raised |-> None, new_api |-> FALSE, version |-> "old", bound |-> old.bound]
     ELSE LET new == ImportAll(NewImports, 1, inst, old.bound)
          IN IF new.raised # None
             THEN [raised |-> new.raised, new_api |-> FALSE, version |-> None,
                   bound |-> Unbound]
             ELSE [raised |-> None, new_api |-> TRUE, version |-> "new",
                   bound |-> new.bound]

\* a call of a backend function through a module-level name; an argument
\* slot that is not used holds Absent
Absent == "<absent>"

BackendCall(b, name, args, kw_rpb) ==
  IF b[name] = None
  THEN [raised |-> "NameError", fn |-> None, args |-> <<>>, kw_rpb |-> Absent]
  ELSE [raised |-> None, fn |-> b[name], args |-> args, kw_rpb |-> kw_rpb]

NoBackendCall == [raised |-> None, fn |-> None, args |-> <<>>, kw_rpb |-> Absent]

\* faulty variant: the legacy call passes the bias last
na1d_qk_rpb_last(new_api, b, query, key, kernel_size, dilation, rpb) ==
  IF new_api
  THEN BackendCall(b, "_na1d_qk_new", <<query, key, kernel_size, dilation>>, rpb)
  ELSE BackendCall(b, "_na1d_qk_old", <<query, key, kernel_size, dilation, rpb>>, Absent)

\* natten_compat.py na1d_qk
na1d_qk(new_api, b, query, key, kernel_size, dilation, rpb) ==
  IF new_api
  THEN BackendCall(b, "_na1d_qk_new", <<query, key, kernel_size, dilation>>, rpb)
  ELSE BackendCall(b, "_na1d_qk_old", <<query, key, rpb, kernel_size, dilation>>, Absent)

\* natten_compat.py na1d_av
na1d_av(new_api, b, attn, value, kernel_size, dilation) ==
  IF new_api
  THEN BackendCall(b, "_na1d_av_new", <<attn, value, kernel_size, dilation>>, Absent)
  ELSE BackendCall(b, "_na1d_av_old", <<attn, value, kernel_size, dilation>>, Absent)

\* faulty variant: the modern call drops the bias
na2d_qk_drop_rpb(new_api, b, query, key, kernel_size, dilation, rpb) ==
  IF new_api
  THEN BackendCall(b, "_na2d_qk_new", <<query, key, kernel_size, dilation>>, None)
  ELSE BackendCall(b, "_na2d_qk_old", <<query, key, rpb, kernel_size, dilation>>, Absent)

\* natten_compat.py na2d_qk
na2d_qk(new_api, b, query, key, kernel_size, dilation, rpb) ==
  IF new_api
  THEN BackendCall(b, "_na2d_qk_new", <<query, key, kernel_size, dilation>>, rpb)
  ELSE BackendCall(b, "_na2d_qk_old", <<query, key, rpb, kernel_size, dilation>>, Absent)

\* natten_compat.py na2d_av
na2d_av(new_api, b, attn, value, kernel_size, dilation) ==
  IF new_api
  THEN BackendCall(b, "_na2d_av_new", <<attn, value, kernel_size, dilation>>, Absent)
  ELSE BackendCall(b, "_na2d_av_old", <<attn, value, kernel_size, dilation>>, Absent)

(***************************************************************************)
(* Inputs.                                                                 *)
(***************************************************************************)
\* state_dict keys: the bias pattern in either case, at the start, in the
\* middle and at the end of a key, and near misses
KeyPool ==
  { <<"r", "p", "b">>,
    <<"R", "P", "B">>,
    <<"a", ".", "r", "p", "b">>,
    <<"a", ".", "R", "p", "B">>,
    <<"r", "p", "b", ".", "w">>,
    <<"a", "r", "P", "b", "w">>,
    <<"a", ".", "w">>,
    <<"r", "p">>,
    <<"r", ".", "p", "b">>,
    <<"b", "p", "r">>,
    <<>> }

Tensors == {"T1", "T2"}

Entries == [k : KeyPool, v : Tensors]

\* the mappings with at most MaxKeys keys
StateDicts ==
  UNION { { d \in [1..n -> Entries] :
              \A i, j \in 1..n : i # j => d[i].k # d[j].k } : n \in 0..MaxKeys }

K_rpb == <<"a", ".", "r", "p", "b">>
K_RPB == <<"b", ".", "R", "P", "B">>
K_weight == <<"a", ".", "w">>

\* a state_dict of the current architecture, and one written by the old one
CleanStateDict == << [k |-> K_weight, v |-> "T4"] >>
LegacyStateDict ==
  << [k |-> K_rpb, v |-> "T1"], [k |-> K_weight, v |-> "T2"], [k |-> K_RPB, v |-> "T3"] >>

\* a deserialized bundle: its top-level fields and their values
Checkpoint(fields, config, sd) == [fields |-> fields, config |-> config, state_dict |-> sd]

NoCheckpoint == Checkpoint({}, None, <<>>)

OkClean ==
  [kind |-> "ok",
   checkpoint |-> Checkpoint({"config", "state_dict"}, "config-0.20", CleanStateDict)]
OkLegacy ==
  [kind |-> "ok",
   checkpoint |-> Checkpoint({"config", "state_dict"}, "config-0.17", LegacyStateDict)]
OkNoConfig ==
  [kind |-> "ok", checkpoint |-> Checkpoint({"state_dict"}, None, LegacyStateDict)]
FetchError == [kind |-> "fetch_error", checkpoint |-> NoCheckpoint]
LoadError == [kind |-> "load_error", checkpoint |-> NoCheckpoint]

Responses == {OkClean, OkLegacy, OkNoConfig, FetchError, LoadError}

NameInputs == {None, "", "no-such-model"} \cup DOMAIN ENSEMBLE_MODELS
                \cup {NAME_TO_FILE[i][1] : i \in 1..Len(NAME_TO_FILE)}
EnsembleNameInputs == {None, "harmonix-fold0"} \cup DOMAIN ENSEMBLE_MODELS
DeviceInputs == {None, "cpu"}

\* what releases of natten offer in natten.functional: nothing (not
\* installed), the old names only, both sets of names, the new names only
Releases == { {}, OldSymbols, OldSymbols \cup NewSymbols, NewSymbols }

QueryInputs == {"q"}
KeyInputs == {"k"}
KernelSizeInputs == {"3", "5"}
DilationInputs == {"1", "2"}
RpbInputs == {None, "rpb"}

(***************************************************************************)
(* Initial values.                                                         *)
(***************************************************************************)
NoMigrateRet == [raised |-> None, rpb_keys |-> <<>>, missing |-> <<>>]
NoLast == [fn |-> "none", model_name |-> None, device |-> None, result |-> Ret(NoValue, <<>>)]
NoShimCall ==
  [fn |-> "none", a |-> None, b |-> None, kernel_size |-> None, dilation |-> None,
   rpb |-> None, backend |-> NoBackendCall]

MigrateIdle ==
  /\ state_dict = <<>> /\ raw_state_dict = <<>> /\ prev_state_dict = <<>>
  /\ migrate_ret = NoMigrateRet /\ applied = 0

LoaderIdle ==
  /\ hub = [f \in Files |-> OkClean] /\ cuda_device_count = 0
  /\ envChanges = 0 /\ last = NoLast

ShimIdle ==
  /\ installed = {} /\ import_state = "not_imported"
  /\ _NATTEN_NEW_API = FALSE /\ NATTEN_VERSION = None
  /\ bound = Unbound /\ installed_at_import = {} /\ shim_call = NoShimCall

(***************************************************************************)
(* _migrate_checkpoint applied, repeatedly, to a caller's mapping.         *)
(***************************************************************************)
InitMigrate ==
  /\ state_dict \in StateDicts
  /\ raw_state_dict = state_dict
  /\ prev_state_dict = state_dict
  /\ migrate_ret = NoMigrateRet
  /\ applied = 0
  /\ LoaderIdle /\ ShimIdle

Migrate ==
  /\ applied < MaxApplied
  /\ LET r == _migrate_checkpoint(state_dict)
     IN /\ state_dict' = r.state_dict
        /\ migrate_ret' = [raised |-> r.raised, rpb_keys |-> r.rpb_keys, missing |-> r.missing]
  /\ prev_state_dict' = state_dict
  /\ applied' = applied + 1
  /\ UNCHANGED <<raw_state_dict, loaderVars, shimVars>>

NextMigrate == Migrate

SpecMigrate == InitMigrate /\ [][NextMigrate]_vars

(***************************************************************************)
(* The loader, called against a remote store that may change.  The loader  *)
(* keeps no state between calls, so a behaviour is: the store changes,     *)
(* then one call is made against it.                                       *)
(***************************************************************************)
InitLoader ==
  /\ \E r \in {OkClean, OkLegacy} : hub = [f \in Files |-> r]
  /\ cuda_device_count \in {0, 1}
  /\ envChanges = 0
  /\ last = NoLast
  /\ MigrateIdle /\ ShimIdle

\* the remote file f changes, becomes unreachable or gets corrupted
HubChange ==
  /\ last.fn = "none"
  /\ envChanges < MaxEnvChanges
  /\ \E f \in Files, r \in Responses :
       /\ hub[f] # r
       /\ hub' = [hub EXCEPT ![f] = r]
  /\ envChanges' = envChanges + 1
  /\ UNCHANGED <<cuda_device_count, last, migrateVars, shimVars>>

CallLoadPretrained ==
  /\ last.fn = "none"
  /\ \E model_name \in NameInputs, device \in DeviceInputs :
       last' = [fn |-> "load_pretrained_model", model_name |-> model_name,
                device |-> device,
                result |-> load_pretrained_model(model_name, device, hub, cuda_device_count)]
  /\ UNCHANGED <<hub, cuda_device_count, envChanges, migrateVars, shimVars>>

CallLoadEnsemble ==
  /\ last.fn = "none"
  /\ \E model_name \in EnsembleNameInputs, device \in DeviceInputs :
       last' = [fn |-> "load_ensemble_model", model_name |-> model_name,
                device |-> device,
                result |-> load_ensemble_model(model_name, device, hub, cuda_device_count)]
  /\ UNCHANGED <<hub, cuda_device_count, envChanges, migrateVars, shimVars>>

NextLoader == HubChange \/ CallLoadPretrained \/ CallLoadEnsemble

SpecLoader == InitLoader /\ [][NextLoader]_vars

(***************************************************************************)
(* The shim: natten_compat is imported against whatever natten.functional  *)
(* offers at that moment, then its functions are called; the installed     *)
(* package may change at any time.                                         *)
(***************************************************************************)
InitShim ==
  /\ installed \in SUBSET Symbols
  /\ import_state = "not_imported"
  /\ _NATTEN_NEW_API = FALSE
  /\ NATTEN_VERSION = None
  /\ bound = Unbound
  /\ installed_at_import = {}
  /\ shim_call = NoShimCall
  /\ MigrateIdle /\ LoaderIdle

\* another release of natten is installed, or natten is removed
Reinstall ==
  /\ \E release \in Releases :
       /\ release # installed
       /\ installed' = release
  /\ UNCHANGED <<import_state, _NATTEN_NEW_API, NATTEN_VERSION, bound,
                 installed_at_import, shim_call, migrateVars, loaderVars>>

\* import allin1.models.natten_compat (a failed import can be tried again)
ImportShim ==
  /\ import_state # "imported"
  /\ LET m == ModuleImport(installed)
     IN /\ import_state' = IF m.raised = None THEN "imported" ELSE "import_failed"
        /\ _NATTEN_NEW_API' = m.new_api
        /\ NATTEN_VERSION' = m.version
        /\ bound' = m.bound
  /\ installed_at_import' = installed
  /\ UNCHANGED <<installed, shim_call, migrateVars, loaderVars>>

ShimCall(fn, a, b, kernel_size, dilation, rpb, backend) ==
  [fn |-> fn, a |-> a, b |-> b, kernel_size |-> kernel_size, dilation |-> dilation,
   rpb |-> rpb, backend |-> backend]

Call_na1d_qk ==
  /\ import_state = "imported"
  /\ \E q \in QueryInputs, k \in KeyInputs, ks \in KernelSizeInputs,
        d \in DilationInputs, rpb \in RpbInputs :
       shim_call' = ShimCall("na1d_qk", q, k, ks, d, rpb,
                             na1d_qk(_NATTEN_NEW_API, bound, q, k, ks, d, rpb))
  /\ UNCHANGED <<installed, import_state, _NATTEN_NEW_API, NATTEN_VERSION, bound,
                 installed_at_import, migrateVars, loaderVars>>

Call_na1d_av ==
  /\ import_state = "imported"
  /\ \E attn \in QueryInputs, v \in KeyInputs, ks \in KernelSizeInputs,
        d \in DilationInputs :
       shim_call' = ShimCall("na1d_av", attn, v, ks, d, Absent,
                             na1d_av(_NATTEN_NEW_API, bound, attn, v, ks, d))
  /\ UNCHANGED <<installed, import_state, _NATTEN_NEW_API, NATTEN_VERSION, bound,
                 installed_at_import, migrateVars, loaderVars>>

Call_na2d_qk ==
  /\ import_state = "imported"
  /\ \E q \in QueryInputs, k \in KeyInputs, ks \in KernelSizeInputs,
        d \in DilationInputs, rpb \in RpbInputs :
       shim_call' = ShimCall("na2d_qk", q, k, ks, d, rpb,
                             na2d_qk(_NATTEN_NEW_API, bound, q, k, ks, d, rpb))
  /\ UNCHANGED <<installed, import_state, _NATTEN_NEW_API, NATTEN_VERSION, bound,
                 installed_at_import, migrateVars, loaderVars>>

Call_na2d_av ==
  /\ import_state = "imported"
  /\ \E attn \in QueryInputs, v \in KeyInputs, ks \in KernelSizeInputs,
        d \in DilationInputs :
       shim_call' = ShimCall("na2d_av", attn, v, ks, d, Absent,
                             na2d_av(_NATTEN_NEW_API, bound, attn, v, ks, d))
  /\ UNCHANGED <<installed, import_state, _NATTEN_NEW_API, NATTEN_VERSION, bound,
                 installed_at_import, migrateVars, loaderVars>>

NextShim ==
  \/ Reinstall
  \/ ImportShim
  \/ Call_na1d_qk
  \/ Call_na1d_av
  \/ Call_na2d_qk
  \/ Call_na2d_av

SpecShim == InitShim /\ [][NextShim]_vars

(***************************************************************************)
(* Properties.                                                             *)
(***************************************************************************)
\* the bias-name pattern, spelled out: r, p, b in a row, in either case
BiasName(k) ==
  \E i \in 1..(Len(k) - 2) :
    /\ k[i] \in {"r", "R"}
    /\ k[i + 1] \in {"p", "P"}
    /\ k[i + 2] \in {"b", "B"}

BiasKeysOf(d) == {k \in KeySet(d) : BiasName(k)}

Fetches(trace) == SelectSeq(trace, LAMBDA e : e.op = "hf_hub_download")

DeclaredFolds ==
  << "harmonix-fold0", "harmonix-fold1", "harmonix-fold2", "harmonix-fold3",
     "harmonix-fold4", "harmonix-fold5", "harmonix-fold6", "harmonix-fold7" >>

DeclaredFiles ==
  << "harmonix-fold0-0vra4ys2.pth", "harmonix-fold1-3ozjhtsj.pth",
     "harmonix-fold2-gmgo0nsy.pth", "harmonix-fold3-i92b7m8p.pth",
     "harmonix-fold4-1bql5qo0.pth", "harmonix-fold5-x4z5zeef.pth",
     "harmonix-fold6-x7t226rq.pth", "harmonix-fold7-qwwskhg6.pth" >>

\* the remote file gives a bundle with both required fields
WellFormed(r) ==
  r.kind = "ok" /\ {"config", "state_dict"} \subseteq r.checkpoint.fields

\* the error a member's file produces in the loader
ErrorOf(r) ==
  CASE r.kind = "fetch_error" -> "FetchError"
    [] r.kind = "load_error" -> "FormatError"
    [] OTHER -> "KeyError"

EnsembleCall ==
  /\ last.fn \in {"load_pretrained_model", "load_ensemble_model"}
  /\ last.model_name = "harmonix-all"

\* the nested calls of load_pretrained_model, one per member
MemberCalls(trace) ==
  SelectSeq(trace, LAMBDA e : e.op = "load_pretrained_model" /\ e.arg # "harmonix-all")

\* C1: a call of load_pretrained_model with a name that is in neither
\* registry fails with the unknown-name error and fetches nothing.
C1_UnknownNameFailsBeforeFetch ==
  ( /\ last.fn = "load_pretrained_model"
    /\ last.model_name # None
    /\ last.model_name \notin DOMAIN ENSEMBLE_MODELS
    /\ last.model_name \notin {DeclaredFolds[i] : i \in 1..Len(DeclaredFolds)} )
  => /\ last.result.raised = "AssertionError"
     /\ Fetches(last.result.trace) = <<>>

\* C2: _migrate_checkpoint removes exactly the keys whose lower-cased name
\* contains 'rpb', returns exactly those keys, once each, and leaves every
\* other key in place with its value.
C2_MigrateRemovesExactlyBiasKeys ==
  applied >= 1 =>
    /\ migrate_ret.raised = None
    /\ {migrate_ret.rpb_keys[i] : i \in 1..Len(migrate_ret.rpb_keys)}
         = BiasKeysOf(prev_state_dict)
    /\ Len(migrate_ret.rpb_keys) = Cardinality(BiasKeysOf(prev_state_dict))
    /\ state_dict = SelectSeq(prev_state_dict, LAMBDA e : ~BiasName(e.k))

\* C2, the scenario: {a.rpb: T1, a.w: T2} becomes {a.w: T2}, one key reported
C2_Witness ==
  /\ applied = 1
  /\ prev_state_dict = << [k |-> K_rpb, v |-> "T1"], [k |-> K_weight, v |-> "T2"] >>
  /\ state_dict = << [k |-> K_weight, v |-> "T2"] >>
  /\ migrate_ret.rpb_keys = << K_rpb >>

\* C3: migration is idempotent: a second application changes nothing,
\* removes nothing and raises nothing.
C3_MigrateIdempotent ==
  applied >= 2 =>
    /\ state_dict = prev_state_dict
    /\ migrate_ret.rpb_keys = <<>>
    /\ migrate_ret.raised = None

\* C3: a second application after a first one that removed two keys
C3_Witness ==
  /\ applied = 2
  /\ Len(raw_state_dict) = Len(state_dict) + 2

\* C4: for a known name whose file is fetched and deserialized, the loader
\* returns a model in eval mode, and the number of keys it removed is the
\* number of bias-named keys of the raw state_dict.
C4_KnownNameLoadsInEvalMode ==
  ( /\ last.fn = "load_pretrained_model"
    /\ \E i \in 1..Len(DeclaredFolds) :
         /\ last.model_name = DeclaredFolds[i]
         /\ WellFormed(hub[DeclaredFiles[i]]) )
  => LET i == CHOOSE j \in 1..Len(DeclaredFolds) : last.model_name = DeclaredFolds[j]
         raw == hub[DeclaredFiles[i]].checkpoint.state_dict
         n == Cardinality(BiasKeysOf(raw))
         res == last.result
     IN /\ res.raised = None
        /\ res.value.kind = "AllInOne"
        /\ res.value.training = FALSE
        /\ Len(raw) - Len(res.value.loaded) = n
        /\ \E j \in 1..Len(res.trace) :
             res.trace[j] = Ev("_migrate_checkpoint", DeclaredFiles[i], n)
        /\ (n > 0) <=> (\E j \in 1..Len(res.trace) :
                          res.trace[j] = Ev("print", DeclaredFiles[i], n))

\* C4: a known name loaded from a checkpoint that holds legacy bias keys
C4_Witness ==
  /\ last.fn = "load_pretrained_model"
  /\ last.model_name = "harmonix-fold3"
  /\ hub["harmonix-fold3-i92b7m8p.pth"] = OkLegacy
  /\ last.result.raised = None
  /\ last.result.value.training = FALSE

\* C5: a successful load of harmonix-all gives an ensemble of exactly 8
\* members, fetched once each in the declared fold order, the i-th member
\* being the model loaded for the i-th declared name.
C5_EnsembleEightInOrder ==
  (EnsembleCall /\ last.result.raised = None) =>
    LET res == last.result
    IN /\ res.value.kind = "Ensemble"
       /\ Len(res.value.models) = 8
       /\ [i \in 1..Len(Fetches(res.trace)) |-> Fetches(res.trace)[i].arg] = DeclaredFiles
       /\ [i \in 1..Len(MemberCalls(res.trace)) |-> MemberCalls(res.trace)[i].arg]
            = DeclaredFolds
       /\ \A i \in 1..8 :
            LET ck == hub[DeclaredFiles[i]].checkpoint
                m == res.value.models[i]
            IN /\ m.kind = "AllInOne"
               /\ m.config = ck.config
               /\ m.loaded = SelectSeq(ck.state_dict, LAMBDA e : ~BiasName(e.k))

\* C5: the ensemble loaded from a store whose files differ from one another
C5_Witness ==
  /\ EnsembleCall
  /\ last.result.raised = None
  /\ hub[DeclaredFiles[1]] # hub[DeclaredFiles[8]]
  /\ Len(last.result.value.models) = 8

\* C6: when a member fails to load, load_ensemble_model fails with that
\* error, builds no Ensemble and loads no member after the failing one.
C6_MemberFailureAborts ==
  EnsembleCall =>
    \A i \in 1..Len(DeclaredFiles) :
      ( /\ ~WellFormed(hub[DeclaredFiles[i]])
        /\ \A j \in 1..(i - 1) : WellFormed(hub[DeclaredFiles[j]]) )
      => LET res == last.result
         IN /\ res.raised = ErrorOf(hub[DeclaredFiles[i]])
            /\ res.value = NoValue
            /\ \A j \in 1..Len(res.trace) : res.trace[j].op # "Ensemble"
            /\ [j \in 1..Len(MemberCalls(res.trace)) |-> MemberCalls(res.trace)[j].arg]
                 = SubSeq(DeclaredFolds, 1, i)
            /\ [j \in 1..Len(Fetches(res.trace)) |-> Fetches(res.trace)[j].arg]
                 = SubSeq(DeclaredFiles, 1, i)

\* C6: the third member fails while the members after it could be loaded
C6_Witness ==
  /\ EnsembleCall
  /\ hub[DeclaredFiles[3]] = LoadError
  /\ \A j \in 1..Len(DeclaredFiles) : j # 3 => WellFormed(hub[DeclaredFiles[j]])
  /\ last.result.raised = "FormatError"

\* C9: called without a name, load_pretrained_model fetches the file of
\* harmonix-fold0 and no other; called with an ensemble name it delegates
\* to load_ensemble_model and every fetch happens inside a member's load.
C9_DefaultAndDelegation ==
  /\ (last.fn = "load_pretrained_model" /\ last.model_name = None) =>
       [i \in 1..Len(Fetches(last.result.trace)) |-> Fetches(last.result.trace)[i].arg]
         = << "harmonix-fold0-0vra4ys2.pth" >>
  /\ (last.fn = "load_pretrained_model" /\ last.model_name = "harmonix-all") =>
       LET t == last.result.trace
       IN /\ Len(t) >= 2
          /\ t[1] = Ev("load_pretrained_model", "harmonix-all", 0)
          /\ t[2] = Ev("load_ensemble_model", "harmonix-all", 0)
          /\ last.result = [load_ensemble_model("harmonix-all", last.device, hub,
                                                cuda_device_count)
                              EXCEPT !.trace = <<t[1]>> \o @]
          /\ \A i \in 1..Len(t) :
               t[i].op = "hf_hub_download" =>
                 /\ i > 2
                 /\ t[i - 1].op = "load_pretrained_model"
                 /\ t[i - 1].arg # "harmonix-all"

\* C9: a call without a name that returned a model
C9_Witness ==
  /\ last.fn = "load_pretrained_model"
  /\ last.model_name = None
  /\ last.result.raised = None
  /\ last.result.value.kind = "AllInOne"

\* the attention-function calls of the shim
QkCall == shim_call.fn \in {"na1d_qk", "na2d_qk"}
AvCall == shim_call.fn \in {"na1d_av", "na2d_av"}

LegacyTarget ==
  CASE shim_call.fn = "na1d_qk" -> "natten1dqkrpb"
    [] shim_call.fn = "na1d_av" -> "natten1dav"
    [] shim_call.fn = "na2d_qk" -> "natten2dqkrpb"
    [] shim_call.fn = "na2d_av" -> "natten2dav"
    [] OTHER -> None

ModernTarget ==
  CASE shim_call.fn = "na1d_qk" -> "na1d_qk"
    [] shim_call.fn = "na1d_av" -> "na1d_av"
    [] shim_call.fn = "na2d_qk" -> "na2d_qk"
    [] shim_call.fn = "na2d_av" -> "na2d_av"
    [] OTHER -> None

C7_Routes ==
  (import_state = "imported" /\ (QkCall \/ AvCall)) =>
    LET c == shim_call
        bk == shim_call.backend
    IN /\ installed_at_import = OldSymbols =>
            /\ bk.raised = None
            /\ bk.fn = LegacyTarget
            /\ bk.kw_rpb = Absent
            /\ QkCall => bk.args = <<c.a, c.b, c.rpb, c.kernel_size, c.dilation>>
            /\ AvCall => bk.args = <<c.a, c.b, c.kernel_size, c.dilation>>
       /\ installed_at_import = NewSymbols =>
            /\ bk.raised = None
            /\ bk.fn = ModernTarget
            /\ bk.args = <<c.a, c.b, c.kernel_size, c.dilation>>
            /\ QkCall => bk.kw_rpb = c.rpb
            /\ AvCall => bk.kw_rpb = Absent

C7_SelectedOnce ==
  import_state = "imported" =>
    /\ import_state' = "imported"
    /\ _NATTEN_NEW_API' = _NATTEN_NEW_API
    /\ NATTEN_VERSION' = NATTEN_VERSION
    /\ bound' = bound

\* C7: every call is routed by the backend found when the shim was
\* imported: with only the legacy symbols, to the legacy function with the
\* arguments (query, key, bias, window, dilation), resp. to the legacy
\* aggregation function; with only the modern symbols, to the modern
\* function with the bias as a keyword.  The selection never changes.
C7_ShimRouting == []C7_Routes /\ [][C7_SelectedOnce]_vars

\* C7: a 1D query-key call with a bias under the legacy backend, made after
\* natten was replaced by a release that offers the new names only
C7_Witness ==
  /\ import_state = "imported"
  /\ installed_at_import = OldSymbols
  /\ installed = NewSymbols
  /\ shim_call.fn = "na1d_qk"
  /\ shim_call.rpb = "rpb"
  /\ shim_call.backend.fn = "natten1dqkrpb"

\* the shim was imported while neither the four legacy names nor the four
\* modern names could all be imported
ImportedWithoutBackend ==
  /\ import_state # "not_imported"
  /\ ~(OldSymbols \subseteq installed_at_import)
  /\ ~(NewSymbols \subseteq installed_at_import)

\* C8 as stated: with neither set of symbols importable, importing the
\* shim does not fail.
C8_ImportSucceedsWithoutBackend ==
  ImportedWithoutBackend => import_state = "imported"

\* C8, amended: with neither set of symbols importable, importing the shim
\* fails with the ImportError of the second import, nothing is selected
\* and no attention function of the shim is invoked.
C8_ImportFailsWithoutBackend ==
  ImportedWithoutBackend =>
    /\ import_state = "import_failed"
    /\ bound = Unbound
    /\ NATTEN_VERSION = None
    /\ shim_call = NoShimCall

\* C8: the shim imported while natten offers nothing
C8_Witness ==
  /\ import_state = "import_failed"
  /\ installed_at_import = {}
  /\ installed = {}

\* a query-key call with a bias while the modern backend is selected
ModernQkWithBias ==
  /\ import_state = "imported"
  /\ _NATTEN_NEW_API
  /\ QkCall
  /\ shim_call.rpb # None

\* C10 as stated: under the modern backend a supplied bias never reaches
\* the backend: the call is rejected or made without the bias.
C10_BiasNeverForwarded ==
  ModernQkWithBias =>
    \/ shim_call.backend.raised # None
    \/ shim_call.backend.kw_rpb \in {Absent, None}

\* C10, amended: under the modern backend a supplied bias is forwarded
\* unchanged to the modern function as the keyword rpb; the shim neither
\* rejects the call nor drops the bias.
C10_BiasForwardedAsKeyword ==
  ModernQkWithBias =>
    /\ shim_call.backend.raised = None
    /\ shim_call.backend.fn = ModernTarget
    /\ shim_call.backend.kw_rpb = shim_call.rpb

\* C10: a 2D query-key call with a bias under the modern backend
C10_Witness ==
  /\ ModernQkWithBias
  /\ shim_call.fn = "na2d_qk"
  /\ shim_call.backend.kw_rpb = "rpb"

====
